---- MODULE Spec2Model ----
(***************************************************************************)
(* Model of main.py: the Streamlit dashboard script for the polar-plant EC *)
(* experiment.  One rendering pass is one top-to-bottom run of the script; *)
(* the two loaders are memoized by st.cache_data for the process lifetime. *)
(*                                                                         *)
(* Python strings are sequences of Unicode code points (integers), so that *)
(* NFC normalization, substring search and dictionary-key equality are     *)
(* computed, not assumed.  A dict is a sequence of <<key, value>> pairs in *)
(* insertion order.  A DataFrame is the sequence of its rows (records).    *)
(* None is the empty sequence where a string/path is expected.             *)
(***************************************************************************)
EXTENDS Integers, Sequences, FiniteSets, TLC

\* ------------------------------------------------------------------------
\* Bounds of the model
\* ------------------------------------------------------------------------
\* rendering passes modelled per process run
MaxPasses == 2
\* directory entries in a find_file probe
MaxEntries == 3
\* sheets of a workbook in the aggregation specification
MaxSheets == 3
\* rows of a sheet in the aggregation specification
MaxRows == 1

\* ------------------------------------------------------------------------
\* Strings
\* ------------------------------------------------------------------------
\* ASCII text used in file names
Ascii(ch) ==
  CASE ch = "." -> 46 [] ch = "2" -> 50
    [] ch = "C" -> 67 [] ch = "S" -> 83 [] ch = "V" -> 86
    [] ch = "a" -> 97 [] ch = "b" -> 98 [] ch = "c" -> 99
    [] ch = "l" -> 108 [] ch = "s" -> 115 [] ch = "t" -> 116
    [] ch = "v" -> 118 [] ch = "x" -> 120

Text(chars) == [i \in 1..Len(chars) |-> Ascii(chars[i])]

\* the four site names of school_map / ec_target, as written in the source
\* (precomposed Hangul syllables)
Songdo == <<49569, 46020, 44256>>
Haneul == <<54616, 45720, 44256>>
Ara == <<50500, 46972, 44256>>
Dongsan == <<46041, 49328, 44256>>
\* the "all sites" entry of the sidebar
Jeonche == <<51204, 52404>>

\* canonical decomposition of one code point (Hangul syllables algorithmically)
DecomposeChar(c) ==
  IF c >= 44032 /\ c < 44032 + 11172
  THEN LET s == c - 44032
           l == 4352 + (s \div 588)
           v == 4449 + ((s % 588) \div 28)
           t == 4519 + (s % 28)
       IN  IF t = 4519 THEN <<l, v>> ELSE <<l, v, t>>
  ELSE <<c>>

RECURSIVE Decompose(_)
Decompose(text) ==
  IF text = <<>> THEN <<>>
  ELSE DecomposeChar(Head(text)) \o Decompose(Tail(text))

\* canonical composition: L+V -> LV, LV+T -> LVT
RECURSIVE Compose(_, _)
Compose(done, rest) ==
  IF rest = <<>> THEN done
  ELSE LET ch == Head(rest)
           last == IF done = <<>> THEN 0 ELSE done[Len(done)]
           front == IF done = <<>> THEN <<>> ELSE SubSeq(done, 1, Len(done) - 1)
           isL == last >= 4352 /\ last < 4352 + 19
           isV == ch >= 4449 /\ ch < 4449 + 21
           isLV == last >= 44032 /\ last < 44032 + 11172 /\ (last - 44032) % 28 = 0
           isT == ch > 4519 /\ ch < 4519 + 28
       IN  IF isL /\ isV
           THEN Compose(front \o <<44032 + ((last - 4352) * 21 + (ch - 4449)) * 28>>, Tail(rest))
           ELSE IF isLV /\ isT
           THEN Compose(front \o <<last + (ch - 4519)>>, Tail(rest))
           ELSE Compose(done \o <<ch>>, Tail(rest))

\* unicodedata.normalize("NFC", text)
normalize(text) == Compose(<<>>, Decompose(text))

\* Python's `keyword in name` for str
Contains(keyword, name) ==
  \E i \in 0..(Len(name) - Len(keyword)) :
     SubSeq(name, i + 1, i + Len(keyword)) = keyword

\* pathlib's PurePath.suffix: from the last dot, unless that dot is the
\* first or the last character of the name
PathSuffix(name) ==
  LET dots == {i \in 1..Len(name) : name[i] = 46}
  IN  IF dots = {} THEN <<>>
      ELSE LET i == CHOOSE d \in dots : \A e \in dots : e <= d
           IN  IF 1 < i /\ i < Len(name) THEN SubSeq(name, i, Len(name)) ELSE <<>>

None == <<>>

\* variant of find_file that keeps scanning and returns the last match
RECURSIVE find_file_Last(_, _, _)
find_file_Last(entries, keyword, suffix) ==
  IF entries = <<>> THEN None
  ELSE LET f == entries[Len(entries)]
       IN  IF PathSuffix(f) = suffix /\ Contains(keyword, normalize(f))
           THEN f
           ELSE find_file_Last(SubSeq(entries, 1, Len(entries) - 1), keyword, suffix)

\* find_file(data_dir, keyword, suffix): entries is data_dir.iterdir()
RECURSIVE find_file(_, _, _)
find_file(entries, keyword, suffix) ==
  IF entries = <<>> THEN None
  ELSE LET f == Head(entries)
       IN  IF PathSuffix(f) = suffix
           THEN IF Contains(keyword, normalize(f))
                THEN f
                ELSE find_file(Tail(entries), keyword, suffix)
           ELSE find_file(Tail(entries), keyword, suffix)

\* ------------------------------------------------------------------------
\* dict and DataFrame helpers
\* ------------------------------------------------------------------------
Keys(d) == [i \in 1..Len(d) |-> d[i][1]]

Values(d) == [i \in 1..Len(d) |-> d[i][2]]

KeySet(d) == {d[i][1] : i \in 1..Len(d)}

HasKey(d, k) == \E i \in 1..Len(d) : d[i][1] = k

\* d[k] for a key that is present
Get(d, k) == d[CHOOSE i \in 1..Len(d) : d[i][1] = k][2]

\* d.get(k): <<v>> when present, None otherwise
DictGet(d, k) == IF HasKey(d, k) THEN <<Get(d, k)>> ELSE None

\* d[k] = v: a present key keeps its position, a new key goes last
DictSet(d, k, v) ==
  IF HasKey(d, k)
  THEN [i \in 1..Len(d) |-> IF d[i][1] = k THEN <<k, v>> ELSE d[i]]
  ELSE Append(d, <<k, v>>)

RECURSIVE Sum(_)
Sum(xs) == IF xs = <<>> THEN 0 ELSE Head(xs) + Sum(Tail(xs))

RECURSIVE Concat(_)
Concat(frames) == IF frames = <<>> THEN <<>> ELSE Head(frames) \o Concat(Tail(frames))

Reverse(xs) == [i \in 1..Len(xs) |-> xs[Len(xs) + 1 - i]]

\* Series.mean(): NaN for an empty column, else sum/len kept exact as a fraction
NaN == [nan |-> TRUE, num |-> 0, den |-> 1]

Mean(xs) == IF xs = <<>> THEN NaN ELSE [nan |-> FALSE, num |-> Sum(xs), den |-> Len(xs)]

IsNaN(m) == m.nan

\* float comparison of two defined means
MeanGreater(a, b) == a.num * b.den > b.num * a.den

MeanEqual(a, b) == a.num * b.den = b.num * a.den

\* variant of assign that adds the column to the frame it is called on
assign_InPlace(df, school) ==
  [source |-> [i \in 1..Len(df) |-> [row |-> df[i], school |-> school]],
   result |-> [i \in 1..Len(df) |-> [row |-> df[i], school |-> school]]]

\* df.assign(학교=school): result is a new frame with the column added; source
\* is the frame it was called on, as it is afterwards
assign(df, school) ==
  [source |-> df,
   result |-> [i \in 1..Len(df) |-> [row |-> df[i], school |-> school]]]

\* ------------------------------------------------------------------------
\* The data directory
\* ------------------------------------------------------------------------
CsvSuffix == Text(<<".", "c", "s", "v">>)

XlsxSuffix == Text(<<".", "x", "l", "s", "x">>)

\* file names a data directory may hold
CsvSongdo == Songdo \o CsvSuffix
\* a name in decomposed (NFD) form, as macOS tools write it
CsvHaneul == Decompose(Haneul) \o CsvSuffix
CsvHaneul2 == Haneul \o Text(<<"2">>) \o CsvSuffix
CsvAra == Ara \o CsvSuffix
CsvDongsan == Dongsan \o CsvSuffix
XlsxA == Text(<<"a">>) \o XlsxSuffix

FilePool == <<CsvSongdo, CsvHaneul, CsvHaneul2, CsvAra, CsvDongsan, XlsxA>>

EnvRow(t, temp, humi, ph, ec) ==
  [time |-> t, temperature |-> temp, humidity |-> humi, ph |-> ph, ec |-> ec]

\* what the bytes of a CSV file hold: whether it is a readable table with the
\* required header, and its data rows with the time column still text
CsvContent(name) ==
  CASE name = CsvSongdo ->
         [readable |-> TRUE,
          rows |-> <<EnvRow("t1", 20, 50, 6, 1), EnvRow("t2", 22, 54, 6, 2)>>]
    [] name = CsvHaneul ->
         [readable |-> TRUE, rows |-> <<EnvRow("t1", 18, 60, 7, 2)>>]
    [] name = CsvHaneul2 ->
         [readable |-> TRUE, rows |-> <<EnvRow("not a date", 19, 61, 7, 2)>>]
    [] name = CsvAra ->
         [readable |-> TRUE, rows |-> <<>>]
    [] name = CsvDongsan ->
         [readable |-> TRUE, rows |-> <<EnvRow("t2", 25, 40, 5, 8)>>]
    [] OTHER -> [readable |-> FALSE, rows |-> <<>>]

GrowthRow(leaf, stem, weight) == [leaf |-> leaf, stem |-> stem, weight |-> weight]

\* the sheets of a workbook, in workbook order: <<sheet name, data rows>>
XlsxContent(name) ==
  CASE name = XlsxA ->
         << <<Songdo, <<GrowthRow(4, 30, 3)>> >>,
            <<Haneul, <<GrowthRow(6, 40, 4), GrowthRow(7, 44, 6)>> >>,
            <<Ara, <<GrowthRow(5, 41, 5)>> >>,
            <<Text(<<"S", "2">>), <<>> >> >>
    [] OTHER -> <<>>

\* Path("data").iterdir() lists the files present in one of two orders
DirOrders == {FilePool, Reverse(FilePool)}

Listing(order, present) == SelectSeq(order, LAMBDA f : f \in present)

Dirs == {Listing(o, p) : o \in DirOrders, p \in SUBSET {FilePool[i] : i \in 1..Len(FilePool)}}

\* ------------------------------------------------------------------------
\* Metadata of the script
\* ------------------------------------------------------------------------
\* school_map.items(): <<school, key>>
school_map ==
  << <<Songdo, Songdo>>, <<Haneul, Haneul>>, <<Ara, Ara>>, <<Dongsan, Dongsan>> >>

\* EC targets 1.0, 2.0, 4.0, 8.0
ec_target == << <<Songdo, 1>>, <<Haneul, 2>>, <<Ara, 4>>, <<Dongsan, 8>> >>

\* the entries of the sidebar selectbox; the first is the default
school_options == <<Jeonche, Songdo, Haneul, Ara, Dongsan>>

\* ------------------------------------------------------------------------
\* Loaders (the bodies under @st.cache_data)
\* ------------------------------------------------------------------------
\* pd.to_datetime on one cell of the time column
TimeParses(text) == text \in {"t1", "t2"}

ParseTime(text) == CASE text = "t1" -> 1 [] text = "t2" -> 2

\* pd.read_csv(file_path) followed by df["time"] = pd.to_datetime(df["time"])
ReadEnvFrame(name) ==
  LET c == CsvContent(name)
  IN  IF ~c.readable \/ \E i \in 1..Len(c.rows) : ~TimeParses(c.rows[i].time)
      THEN [raised |-> TRUE, df |-> <<>>]
      ELSE [raised |-> FALSE,
            df |-> [i \in 1..Len(c.rows) |->
                      [c.rows[i] EXCEPT !.time = ParseTime(c.rows[i].time)]]]

\* variant of the loop that leaves it (break) at the first missing file
RECURSIVE load_environment_loop_Break(_, _, _)
load_environment_loop_Break(entries, schools, env) ==
  IF schools = <<>> THEN [raised |-> FALSE, value |-> env]
  ELSE LET school == Head(schools)[1]
           key == Head(schools)[2]
           file_path == find_file(entries, key, CsvSuffix)
       IN  IF file_path = None
           THEN [raised |-> FALSE, value |-> env]
           ELSE LET r == ReadEnvFrame(file_path)
                IN  IF r.raised
                    THEN [raised |-> TRUE, value |-> <<>>]
                    ELSE load_environment_loop_Break(entries, Tail(schools),
                                                     DictSet(env, school, r.df))

\* the for loop of load_environment_data over school_map.items(); an exception
\* of read_csv / to_datetime is not caught and leaves the function
RECURSIVE load_environment_loop(_, _, _)
load_environment_loop(entries, schools, env) ==
  IF schools = <<>> THEN [raised |-> FALSE, value |-> env]
  ELSE LET school == Head(schools)[1]
           key == Head(schools)[2]
           file_path == find_file(entries, key, CsvSuffix)
       IN  IF file_path = None
           THEN load_environment_loop(entries, Tail(schools), env)
           ELSE LET r == ReadEnvFrame(file_path)
                IN  IF r.raised
                    THEN [raised |-> TRUE, value |-> <<>>]
                    ELSE load_environment_loop(entries, Tail(schools),
                                               DictSet(env, school, r.df))

load_environment_body(entries) == load_environment_loop(entries, school_map, <<>>)

\* the first entry with suffix .xlsx, None when there is none
RECURSIVE first_xlsx(_)
first_xlsx(entries) ==
  IF entries = <<>> THEN None
  ELSE IF PathSuffix(Head(entries)) = XlsxSuffix THEN Head(entries)
  ELSE first_xlsx(Tail(entries))

RECURSIVE read_sheets(_, _)
read_sheets(sheets, growth) ==
  IF sheets = <<>> THEN growth
  ELSE read_sheets(Tail(sheets), DictSet(growth, Head(sheets)[1], Head(sheets)[2]))

load_growth_body(entries) ==
  LET xlsx_file == first_xlsx(entries)
  IN  IF xlsx_file = None THEN <<>>
      ELSE read_sheets(XlsxContent(xlsx_file), <<>>)

\* ------------------------------------------------------------------------
\* State
\* ------------------------------------------------------------------------
VARIABLES
  dir,               \* iterdir() listing of the data directory
  pc,                \* position of the running script
  passes,            \* rendering passes started in this process run
  env_cache,         \* st.cache_data entry of load_environment_data
  growth_cache,      \* st.cache_data entry of load_growth_data
  env_reads,         \* times load_environment_data's body ran in this process
  growth_reads,      \* times load_growth_data's body ran in this process
  env_data,          \* module global env_data of the current pass
  growth_data,       \* module global growth_data of the current pass
  school_option,     \* value of the sidebar selectbox (session widget state)
  selected_schools,
  summary_rows, avg_temp, avg_humi,
  avg_env, full_env,
  ec_summary, best_row, merged_df,
  call, result       \* arguments and result of a direct find_file call

loaderVars == <<env_cache, growth_cache, env_reads, growth_reads>>
dataVars == <<env_data, growth_data>>
tab1Vars == <<summary_rows, avg_temp, avg_humi>>
tab2Vars == <<avg_env, full_env>>
tab3Vars == <<ec_summary, best_row, merged_df>>
probeVars == <<call, result>>
vars == <<dir, pc, passes, loaderVars, dataVars, school_option, selected_schools,
          tab1Vars, tab2Vars, tab3Vars, probeVars>>

NoEntry == [hit |-> FALSE, value |-> <<>>]

Entry(v) == [hit |-> TRUE, value |-> v]

\* globals of a script run before the script has assigned them
FreshGlobals ==
  /\ env_data = <<>> /\ growth_data = <<>>
  /\ selected_schools = <<>>
  /\ summary_rows = <<>> /\ avg_temp = NaN /\ avg_humi = NaN
  /\ avg_env = <<>> /\ full_env = <<>>
  /\ ec_summary = <<>> /\ best_row = <<>> /\ merged_df = <<>>

\* a new process opening its first session on some data directory
Init ==
  /\ dir \in Dirs
  /\ pc = "load_env"
  /\ passes = 1
  /\ env_cache = NoEntry /\ growth_cache = NoEntry
  /\ env_reads = 0 /\ growth_reads = 0
  /\ school_option = school_options[1]
  /\ FreshGlobals
  /\ call = <<>> /\ result = None

\* ------------------------------------------------------------------------
\* A rendering pass: the script from top to bottom
\* ------------------------------------------------------------------------
\* env_data = load_environment_data(): st.cache_data returns the stored value
\* on a hit; on a miss it runs the body and stores what it returns, and stores
\* nothing when the body raises
LoadEnv ==
  /\ pc = "load_env"
  /\ IF env_cache.hit
     THEN /\ env_data' = env_cache.value
          /\ pc' = "load_growth"
          /\ UNCHANGED <<env_cache, env_reads>>
     ELSE LET r == load_environment_body(dir)
          IN  /\ env_reads' = env_reads + 1
              /\ IF r.raised
                 THEN /\ pc' = "crashed"
                      /\ UNCHANGED <<env_cache, env_data>>
                 ELSE /\ env_cache' = Entry(r.value)
                      /\ env_data' = r.value
                      /\ pc' = "load_growth"
  /\ UNCHANGED <<dir, passes, growth_cache, growth_reads, growth_data, school_option,
                 selected_schools, tab1Vars, tab2Vars, tab3Vars, probeVars>>

\* growth_data = load_growth_data()
LoadGrowth ==
  /\ pc = "load_growth"
  /\ IF growth_cache.hit
     THEN /\ growth_data' = growth_cache.value
          /\ UNCHANGED <<growth_cache, growth_reads>>
     ELSE /\ growth_reads' = growth_reads + 1
          /\ growth_cache' = Entry(load_growth_body(dir))
          /\ growth_data' = load_growth_body(dir)
  /\ pc' = "guard"
  /\ UNCHANGED <<dir, passes, env_cache, env_reads, env_data, school_option,
                 selected_schools, tab1Vars, tab2Vars, tab3Vars, probeVars>>

\* variant of the guard that tests env_data only
Guard_EnvOnly == env_data = <<>>

\* the condition of `if not env_data or not growth_data: st.stop()`
Guard_Stops == env_data = <<>> \/ growth_data = <<>>

Guard ==
  /\ pc = "guard"
  /\ pc' = IF Guard_Stops THEN "stopped" ELSE "title"
  /\ UNCHANGED <<dir, passes, loaderVars, dataVars, school_option, selected_schools,
                 tab1Vars, tab2Vars, tab3Vars, probeVars>>

\* st.title(...)
Title ==
  /\ pc = "title"
  /\ pc' = "sidebar"
  /\ UNCHANGED <<dir, passes, loaderVars, dataVars, school_option, selected_schools,
                 tab1Vars, tab2Vars, tab3Vars, probeVars>>

\* the selectbox returns the session's current choice
Sidebar ==
  /\ pc = "sidebar"
  /\ selected_schools' = IF school_option = Jeonche THEN Keys(env_data)
                         ELSE <<school_option>>
  /\ pc' = "tab1"
  /\ UNCHANGED <<dir, passes, loaderVars, dataVars, school_option,
                 tab1Vars, tab2Vars, tab3Vars, probeVars>>

Column(df, name) ==
  [i \in 1..Len(df) |->
     CASE name = "temperature" -> df[i].temperature
       [] name = "humidity" -> df[i].humidity
       [] name = "ph" -> df[i].ph
       [] name = "ec" -> df[i].ec
       [] name = "weight" -> df[i].weight]

\* Tab 1: the overview table and the pooled means
Tab1 ==
  /\ pc = "tab1"
  /\ summary_rows' = [i \in 1..Len(growth_data) |->
                        <<growth_data[i][1], DictGet(ec_target, growth_data[i][1]),
                          Len(growth_data[i][2])>>]
  /\ avg_temp' = Mean(Column(Concat(Values(env_data)), "temperature"))
  /\ avg_humi' = Mean(Column(Concat(Values(env_data)), "humidity"))
  /\ pc' = "tab2"
  /\ UNCHANGED <<dir, passes, loaderVars, dataVars, school_option, selected_schools,
                 tab2Vars, tab3Vars, probeVars>>

\* what one iteration of the avg_env loop appends
avg_env_row(school, df) ==
  << <<school, Mean(Column(df, "temperature")), Mean(Column(df, "humidity")),
       Mean(Column(df, "ph")), Mean(Column(df, "ec"))>> >>

RECURSIVE avg_env_loop(_, _)
avg_env_loop(schools, env) ==
  IF schools = <<>> \/ ~HasKey(env, Head(schools)) THEN <<>>
  ELSE avg_env_row(Head(schools), Get(env, Head(schools)))
         \o avg_env_loop(Tail(schools), env)

\* env_data after the df.assign calls of the expander
assigned_sources(data) ==
  [i \in 1..Len(data) |-> <<data[i][1], assign(data[i][2], data[i][1]).source>>]

\* pd.concat([df.assign(학교=school) for school, df in data.items()])
assigned_concat(data) ==
  Concat([i \in 1..Len(data) |-> assign(data[i][2], data[i][1]).result])

\* Tab 2: env_data[school] and ec_target[school] raise KeyError on a missing key
Tab2 ==
  /\ pc = "tab2"
  /\ avg_env' = avg_env_loop(selected_schools, env_data)
  /\ IF \A i \in 1..Len(selected_schools) :
          HasKey(env_data, selected_schools[i]) /\ HasKey(ec_target, selected_schools[i])
     THEN /\ full_env' = assigned_concat(env_data)
          /\ env_data' = assigned_sources(env_data)
          /\ pc' = "tab3"
     ELSE /\ pc' = "crashed"
          /\ UNCHANGED <<full_env, env_data>>
  /\ UNCHANGED <<dir, passes, loaderVars, growth_data, school_option, selected_schools,
                 tab1Vars, tab3Vars, probeVars>>

\* variant of idxmax that moves to a later row on a tie
RECURSIVE idxmax_scan_LastWins(_, _, _)
idxmax_scan_LastWins(means, i, best) ==
  IF i > Len(means) THEN best
  ELSE IF IsNaN(means[i]) THEN idxmax_scan_LastWins(means, i + 1, best)
  ELSE IF best = 0 \/ ~MeanGreater(means[best], means[i])
       THEN idxmax_scan_LastWins(means, i + 1, i)
       ELSE idxmax_scan_LastWins(means, i + 1, best)

\* Series.idxmax(): position of the first occurrence of the maximum, NaN
\* skipped; 0 stands for "all NaN", where the .loc lookup raises
RECURSIVE idxmax_scan(_, _, _)
idxmax_scan(means, i, best) ==
  IF i > Len(means) THEN best
  ELSE IF IsNaN(means[i]) THEN idxmax_scan(means, i + 1, best)
  ELSE IF best = 0 \/ MeanGreater(means[i], means[best])
       THEN idxmax_scan(means, i + 1, i)
       ELSE idxmax_scan(means, i + 1, best)

idxmax(means) == idxmax_scan(means, 1, 0)

\* variant of ec_summary_rows that drops keys without an ec_target entry
ec_summary_rows_Known(growth) ==
  SelectSeq([i \in 1..Len(growth) |->
              <<growth[i][1], DictGet(ec_target, growth[i][1]),
                Mean(Column(growth[i][2], "weight")), Len(growth[i][2])>>],
            LAMBDA r : r[2] # None)

\* the rows of ec_summary: [school, ec_target.get(school), mean, len(df)]
ec_summary_rows(growth) ==
  [i \in 1..Len(growth) |->
     <<growth[i][1], DictGet(ec_target, growth[i][1]),
       Mean(Column(growth[i][2], "weight")), Len(growth[i][2])>>]

\* Tab 3: growth summary, best row, merged table
Tab3 ==
  /\ pc = "tab3"
  /\ ec_summary' = ec_summary_rows(growth_data)
  /\ LET rows == ec_summary_rows(growth_data)
         best == idxmax([i \in 1..Len(rows) |-> rows[i][3]])
     IN  IF best = 0
         THEN /\ pc' = "crashed"
              /\ UNCHANGED <<best_row, merged_df, growth_data>>
         ELSE /\ best_row' = rows[best]
              /\ merged_df' = assigned_concat(growth_data)
              /\ growth_data' = assigned_sources(growth_data)
              /\ pc' = "done"
  /\ UNCHANGED <<dir, passes, loaderVars, env_data, school_option, selected_schools,
                 tab1Vars, tab2Vars, probeVars>>

\* ------------------------------------------------------------------------
\* Between passes
\* ------------------------------------------------------------------------
\* the script is not running: it ran to its end, st.stop() ended it, or an
\* uncaught exception ended it
Idle == pc \in {"done", "stopped", "crashed"}

\* Streamlit re-executes the script from the top with fresh globals
StartPass ==
  /\ pc' = "load_env"
  /\ passes' = passes + 1
  /\ env_data' = <<>> /\ growth_data' = <<>>
  /\ selected_schools' = <<>>
  /\ summary_rows' = <<>> /\ avg_temp' = NaN /\ avg_humi' = NaN
  /\ avg_env' = <<>> /\ full_env' = <<>>
  /\ ec_summary' = <<>> /\ best_row' = <<>> /\ merged_df' = <<>>

\* the user acts on a page whose sidebar was rendered: the selectbox takes
\* the chosen value and the script reruns
Interact(option) ==
  /\ Idle
  /\ selected_schools # <<>>
  /\ passes < MaxPasses
  /\ school_option' = option
  /\ StartPass
  /\ UNCHANGED <<dir, loaderVars, probeVars>>

\* the page is opened again: a new session, whose selectbox shows its default
Reload ==
  /\ Idle
  /\ passes < MaxPasses
  /\ school_option' = school_options[1]
  /\ StartPass
  /\ UNCHANGED <<dir, loaderVars, probeVars>>

\* a file is created in or removed from the data directory between passes
\* (a change after the last modelled pass is read by no pass)
ChangeDir ==
  /\ Idle
  /\ passes < MaxPasses
  /\ \E d \in Dirs :
        /\ LET old == {dir[i] : i \in 1..Len(dir)}
               new == {d[i] : i \in 1..Len(d)}
           IN  Cardinality((old \ new) \cup (new \ old)) = 1
        /\ dir' = d
  /\ UNCHANGED <<pc, passes, loaderVars, dataVars, school_option, selected_schools,
                 tab1Vars, tab2Vars, tab3Vars, probeVars>>

\* the process is started anew: the caches are gone
Restart ==
  /\ Idle
  /\ pc' = "load_env"
  /\ passes' = 1
  /\ env_cache' = NoEntry /\ growth_cache' = NoEntry
  /\ env_reads' = 0 /\ growth_reads' = 0
  /\ school_option' = school_options[1]
  /\ env_data' = <<>> /\ growth_data' = <<>>
  /\ selected_schools' = <<>>
  /\ summary_rows' = <<>> /\ avg_temp' = NaN /\ avg_humi' = NaN
  /\ avg_env' = <<>> /\ full_env' = <<>>
  /\ ec_summary' = <<>> /\ best_row' = <<>> /\ merged_df' = <<>>
  /\ UNCHANGED <<dir, probeVars>>

Options == {school_options[i] : i \in 1..Len(school_options)}

Next ==
  \/ LoadEnv
  \/ LoadGrowth
  \/ Guard
  \/ Title
  \/ Sidebar
  \/ Tab1
  \/ Tab2
  \/ Tab3
  \/ \E option \in Options : Interact(option)
  \/ Reload
  \/ ChangeDir
  \/ Restart

Spec == Init /\ [][Next]_vars

\* ------------------------------------------------------------------------
\* find_file on its own: any listing, keyword and suffix
\* ------------------------------------------------------------------------
ProbeNames ==
  { CsvSongdo,
    Decompose(Songdo) \o Text(<<"2">>) \o CsvSuffix,
    Songdo \o Text(<<".", "C", "S", "V">>),
    Songdo \o XlsxSuffix,
    CsvHaneul,
    CsvSuffix,
    XlsxA }

ProbeKeywords == {Songdo, Haneul, Decompose(Songdo), <<>>}

ProbeSuffixes == {CsvSuffix, XlsxSuffix, Text(<<".", "C", "S", "V">>), <<>>}

\* listings of up to MaxEntries distinct names, in any order
ProbeDirs ==
  UNION {{d \in [1..n -> ProbeNames] : \A i, j \in 1..n : i # j => d[i] # d[j]}
           : n \in 0..MaxEntries}

InitFind ==
  /\ dir \in ProbeDirs
  /\ pc = "probe"
  /\ passes = 1
  /\ env_cache = NoEntry /\ growth_cache = NoEntry
  /\ env_reads = 0 /\ growth_reads = 0
  /\ school_option = school_options[1]
  /\ FreshGlobals
  /\ call = <<>> /\ result = None

CallFindFile(keyword, suffix) ==
  /\ pc = "probe"
  /\ call' = <<[keyword |-> keyword, suffix |-> suffix]>>
  /\ result' = find_file(dir, keyword, suffix)
  /\ UNCHANGED <<dir, pc, passes, loaderVars, dataVars, school_option, selected_schools,
                 tab1Vars, tab2Vars, tab3Vars>>

NextFind == \E keyword \in ProbeKeywords, suffix \in ProbeSuffixes : CallFindFile(keyword, suffix)

SpecFind == InitFind /\ [][NextFind]_vars

\* ------------------------------------------------------------------------
\* The tabs on their own: any loaded growth mapping
\* ------------------------------------------------------------------------
SheetNames == {Songdo, Haneul, Decompose(Songdo), Text(<<"S", "2">>)}

\* data rows of one sheet: up to MaxRows plants with fresh weight 1 or 2
SheetFrames ==
  UNION {[1..n -> {GrowthRow(5, 40, w) : w \in 1..2}] : n \in 0..MaxRows}

\* what load_growth_data returns for a workbook of 1..MaxSheets sheets
GrowthMaps ==
  UNION {{g \in [1..n -> SheetNames \X SheetFrames] :
             \A i, j \in 1..n : i # j => g[i][1] # g[j][1]}
           : n \in 1..MaxSheets}

\* a pass that is past the load guard
InitAgg ==
  /\ dir = <<>>
  /\ pc = "sidebar"
  /\ passes = 1
  /\ env_data = << <<Songdo, <<EnvRow(1, 20, 50, 6, 1)>> >> >>
  /\ env_cache = Entry(env_data)
  /\ growth_data \in GrowthMaps
  /\ growth_cache = Entry(growth_data)
  /\ env_reads = 1 /\ growth_reads = 1
  /\ school_option = school_options[1]
  /\ selected_schools = <<>>
  /\ summary_rows = <<>> /\ avg_temp = NaN /\ avg_humi = NaN
  /\ avg_env = <<>> /\ full_env = <<>>
  /\ ec_summary = <<>> /\ best_row = <<>> /\ merged_df = <<>>
  /\ call = <<>> /\ result = None

NextAgg == Sidebar \/ Tab1 \/ Tab2 \/ Tab3

SpecAgg == InitAgg /\ [][NextAgg]_vars

\* ------------------------------------------------------------------------
\* Properties
\* ------------------------------------------------------------------------
\* positions of the entries a find_file(entries, keyword, suffix) call accepts
Hits(entries, keyword, suffix) ==
  {i \in 1..Len(entries) :
     PathSuffix(entries[i]) = suffix /\ Contains(keyword, normalize(entries[i]))}

FirstHit(entries, keyword, suffix) ==
  entries[CHOOSE i \in Hits(entries, keyword, suffix) :
            \A j \in Hits(entries, keyword, suffix) : i <= j]

\* the sites of school_map for which the directory holds a CSV
SitesFound(entries) ==
  {school_map[i][1] : i \in {j \in 1..Len(school_map) :
                               Hits(entries, school_map[j][2], CsvSuffix) # {}}}

\* the located CSV of every found site can be read and its time column parsed
AllFoundParse(entries) ==
  \A s \in SitesFound(entries) : ~ReadEnvFrame(FirstHit(entries, s, CsvSuffix)).raised

Ordered(keys, order) ==
  \A i, j \in 1..Len(keys) :
     i < j => \E a, b \in 1..Len(order) : a < b /\ order[a] = keys[i] /\ order[b] = keys[j]

\* C1: when the environment loader reads a directory in which any subset of
\* the sites has no CSV (and the located files are well formed), it returns
\* normally with exactly the found sites as keys, in enumeration order, each
\* mapped to the table of its own file; a missing site stops no later site.
C1_MissingSitesSkipped ==
  [][(pc = "load_env" /\ ~env_cache.hit /\ AllFoundParse(dir))
       => /\ pc' = "load_growth"
          /\ KeySet(env_data') = SitesFound(dir)
          /\ Len(env_data') = Cardinality(SitesFound(dir))
          /\ Ordered(Keys(env_data'), Keys(school_map))
          /\ \A s \in SitesFound(dir) :
                Get(env_data', s) = ReadEnvFrame(FirstHit(dir, s, CsvSuffix)).df]_vars

\* first pass on a directory without the first site's CSV: the loader has
\* returned, the first site is absent and the last site is loaded
C1_Witness ==
  /\ pc = "load_growth" /\ passes = 1 /\ env_reads = 1
  /\ Hits(dir, Songdo, CsvSuffix) = {} /\ Hits(dir, Ara, CsvSuffix) = {}
  /\ ~HasKey(env_data, Songdo)
  /\ HasKey(env_data, Haneul) /\ HasKey(env_data, Dongsan)
  /\ Get(env_data, Dongsan) # <<>>

NoXlsx(entries) == \A i \in 1..Len(entries) : PathSuffix(entries[i]) # XlsxSuffix

\* C2: when the growth loader reads a directory with no .xlsx entry it returns
\* the empty mapping, the guard then stops the pass, and a stopped pass runs
\* no later stage: the next thing that runs is a new pass from the top.
C2_NoWorkbookHaltsPass ==
  [][/\ (pc = "load_growth" /\ ~growth_cache.hit /\ NoXlsx(dir))
          => (growth_data' = <<>> /\ pc' = "guard")
     /\ (pc = "guard" /\ growth_data = <<>>) => pc' = "stopped"
     /\ pc = "stopped" => pc' \in {"stopped", "load_env"}]_vars

\* first pass, CSVs loaded, no workbook in the directory: the pass is stopped
C2_Witness ==
  /\ pc = "stopped" /\ passes = 1 /\ growth_reads = 1
  /\ NoXlsx(dir)
  /\ growth_data = <<>>
  /\ Len(env_data) >= 2
  /\ selected_schools = <<>> /\ summary_rows = <<>> /\ ec_summary = <<>>

\* the sites whose located CSV is read and parsed without error
SitesParsed(entries) ==
  {s \in SitesFound(entries) : ~ReadEnvFrame(FirstHit(entries, s, CsvSuffix)).raised}

\* C3: a located CSV that cannot be read or whose time column cannot be
\* parsed only removes its own site from the result: the loader returns
\* normally with every other found site loaded.
C3_MalformedSiteSkipped ==
  [][(pc = "load_env" /\ ~env_cache.hit)
       => /\ pc' = "load_growth"
          /\ KeySet(env_data') = SitesParsed(dir)]_vars

\* code points of the decomposed (NFD) spellings of two site names
NfdSongdo == <<4361, 4457, 4540, 4355, 4457, 4352, 4457>>
NfdHaneul == <<4370, 4449, 4354, 4467, 4527, 4352, 4457>>

\* C4: find_file returns the first entry, in listing order, whose extension
\* equals the suffix and whose NFC-normalized name contains the keyword; it
\* returns None exactly when there is no such entry; a name that spells a
\* site name in NFD is matched by the site's NFC keyword.
C4_FindFileFirstMatch ==
  call # <<>> =>
    LET keyword == call[1].keyword
        suffix == call[1].suffix
        hits == {i \in 1..Len(dir) :
                   PathSuffix(dir[i]) = suffix /\ Contains(keyword, normalize(dir[i]))}
    IN  /\ result = None <=> hits = {}
        /\ hits # {} => \E i \in hits : result = dir[i] /\ \A j \in hits : i <= j
        /\ \A i \in 1..Len(dir) :
              /\ PathSuffix(dir[i]) = suffix
              /\ \/ keyword = Songdo /\ Contains(NfdSongdo, dir[i])
                 \/ keyword = Haneul /\ Contains(NfdHaneul, dir[i])
              => i \in hits /\ result # None

\* a listing whose first entry does not match, whose second is an NFD-named
\* match and whose third matches too: the second entry is returned
C4_Witness ==
  /\ call # <<>> /\ call[1].keyword = Songdo /\ call[1].suffix = CsvSuffix
  /\ Len(dir) = 3
  /\ dir[1] = Songdo \o Text(<<".", "C", "S", "V">>)
  /\ Contains(NfdSongdo, dir[2])
  /\ dir[3] = CsvSongdo
  /\ result = dir[2]

\* C5: the best row is a row of the growth summary whose mean fresh weight is
\* defined and not exceeded by any other defined mean, and every row before
\* it has a strictly smaller (or undefined) mean.
C5_BestSiteIsFirstMaximum ==
  pc = "done" =>
    \E i \in 1..Len(ec_summary) :
       /\ best_row = ec_summary[i]
       /\ ~IsNaN(ec_summary[i][3])
       /\ ec_summary[i][3] = Mean(Column(growth_data[i][2], "weight"))
       /\ \A j \in 1..Len(ec_summary) :
             ~IsNaN(ec_summary[j][3]) =>
                /\ ec_summary[j][3].num * ec_summary[i][3].den
                     <= ec_summary[i][3].num * ec_summary[j][3].den
                /\ j < i => ec_summary[j][3].num * ec_summary[i][3].den
                              < ec_summary[i][3].num * ec_summary[j][3].den

\* three sheets, the second and third tie at the maximum: the second is best
C5_Witness ==
  /\ pc = "done" /\ Len(ec_summary) = 3
  /\ ~IsNaN(ec_summary[1][3]) /\ ~IsNaN(ec_summary[2][3]) /\ ~IsNaN(ec_summary[3][3])
  /\ MeanGreater(ec_summary[2][3], ec_summary[1][3])
  /\ MeanEqual(ec_summary[2][3], ec_summary[3][3])
  /\ best_row = ec_summary[2]

\* C6: the environment summary holds a row only for a site with at least one
\* record, and no row carries an undefined mean.
C6_EmptySitesOmitted ==
  \A i \in 1..Len(avg_env) :
     /\ HasKey(env_data, avg_env[i][1]) => Get(env_data, avg_env[i][1]) # <<>>
     /\ \A c \in 2..5 : ~IsNaN(avg_env[i][c])

\* C7: in one process run each loader's body reads the directory at most once.
C7_EachLoaderReadsOnce == env_reads <= 1 /\ growth_reads <= 1

\* the target EC the script's ec_target table gives a key, None outside it
TargetOf(key) ==
  CASE key = Songdo -> <<1>> [] key = Haneul -> <<2>>
    [] key = Ara -> <<4>> [] key = Dongsan -> <<8>> [] OTHER -> <<>>

\* C8: once built, the growth summary (and the overview table) has one row
\* per key of growth_data in the mapping's order, with the site's record
\* count and its target EC, None for a key outside ec_target; a key without
\* a target never ends the pass.
C8_OneSummaryRowPerSite ==
  /\ pc \in {"tab2", "tab3", "done", "crashed"} =>
       /\ Len(summary_rows) = Len(growth_data)
       /\ \A i \in 1..Len(growth_data) :
             summary_rows[i] = <<growth_data[i][1], TargetOf(growth_data[i][1]),
                                 Len(growth_data[i][2])>>
  /\ pc \in {"done", "crashed"} =>
       /\ Len(ec_summary) = Len(growth_data)
       /\ \A i \in 1..Len(growth_data) :
             /\ ec_summary[i][1] = growth_data[i][1]
             /\ ec_summary[i][2] = TargetOf(growth_data[i][1])
             /\ ec_summary[i][4] = Len(growth_data[i][2])
  /\ pc = "crashed" => \A i \in 1..Len(growth_data) : growth_data[i][2] = <<>>

\* a finished pass over a workbook with a sheet outside the four sites
C8_Witness ==
  /\ pc = "done" /\ Len(ec_summary) = 3
  /\ ec_summary[1][2] = <<>> /\ ec_summary[1][4] = 0
  /\ ec_summary[2][2] = <<1>> /\ ec_summary[2][4] = 1
  /\ ec_summary[3][1] = NfdSongdo /\ ec_summary[3][2] = <<>>
  /\ summary_rows[3] = <<NfdSongdo, <<>>, Len(growth_data[3][2])>>

\* C9: from the guard to the end of the pass no step changes env_data or
\* growth_data, and no step at all changes a stored cache entry's value.
C9_NothingMutatedAfterLoad ==
  [][/\ pc \in {"guard", "title", "sidebar", "tab1", "tab2", "tab3"}
          => (env_data' = env_data /\ growth_data' = growth_data)
     /\ (env_cache.hit /\ env_cache'.hit) => env_cache' = env_cache
     /\ (growth_cache.hit /\ growth_cache'.hit) => growth_cache' = growth_cache]_vars

\* a pass with one site selected has run to its end, the tagged tables were
\* built and the loaded data still equals what the loaders returned
C9_Witness ==
  /\ pc = "done" /\ school_option = Haneul
  /\ Len(full_env) >= 3 /\ Len(merged_df) >= 3
  /\ \A i \in 1..Len(full_env) : full_env[i].school \in KeySet(env_data)
  /\ env_data = env_cache.value /\ growth_data = growth_cache.value

\* C10: every site in selected_schools is a key of env_data.
C10_SelectedSitesAreLoaded ==
  \A i \in 1..Len(selected_schools) : HasKey(env_data, selected_schools[i])

====
